---- MODULE Spec2Model ----
(***************************************************************************)
(* Model of the DES-V2 Python strategy worker:                             *)
(*   python/strategies/example_grid.py  ExampleGrid (grid strategy)        *)
(*   python/worker/main.py              StrategyService.OnTick, serve      *)
(*                                                                         *)
(* Prices are IEEE doubles in the code.  The model draws finite prices     *)
(* from integers (integer-valued doubles) and keeps NaN, +Infinity and     *)
(* -Infinity as separate values.  min_step_ratio = 0.002 is the rational   *)
(* MinStepNum / MinStepDen, and a threshold comparison such as             *)
(*   price > lower * (1 + min_step_ratio)                                  *)
(* is computed by cross-multiplication.  For the strategy parameters and   *)
(* prices of this model the exact comparison and the double comparison     *)
(* of the code give the same answer.  Order sizes are in units of 0.001.   *)
(***************************************************************************)
EXTENDS Integers, Sequences, FiniteSets, TLC

VARIABLES strategy, req, decision, signal, pre,
          sinceBuy, sinceSell, run, rearm, flat, lastEmit,
          pc, treq, tsig, batch, calls,
          notifier, outbox, sendState

vars == <<strategy, req, decision, signal, pre,
          sinceBuy, sinceSell, run, rearm, flat, lastEmit,
          pc, treq, tsig, batch, calls, notifier, outbox, sendState>>

seqVars == <<req, decision, signal, pre, sinceBuy, sinceSell, run, rearm,
             flat, lastEmit>>

concVars == <<pc, treq, tsig, batch, calls>>

alertVars == <<notifier, outbox, sendState>>

-----------------------------------------------------------------------------
(* Bounds and program constants *)

\* Finite prices are taken within PriceSpread of every band and threshold.
PriceSpread == 1

\* self.min_step_ratio = 0.002 = MinStepNum / MinStepDen
MinStepNum == 2

MinStepDen == 1000

\* Decisions within one run of equal-price ticks are counted up to MaxCounted.
MaxCounted == 2

\* A caller makes at most MaxSends delivery attempts through one notifier.
MaxSends == 3

\* futures.ThreadPoolExecutor(max_workers=2)
MaxWorkers == 2

\* At most MaxCalls calls are served between two moments at which no call is
\* in flight.
MaxCalls == 3

\* size=0.001 of the service's instance, in units of 0.001
ServiceSize == 1

\* lower=100.0 of the service's instance
ServiceLower == 100

\* upper=200.0 of the service's instance
ServiceUpper == 200

BoundSymbol == "BTCUSDT"

-----------------------------------------------------------------------------
(* Doubles *)

Fin(n) == [k |-> "fin", v |-> n]

NaN == [k |-> "nan", v |-> 0]

PosInf == [k |-> "pinf", v |-> 0]

NegInf == [k |-> "ninf", v |-> 0]

IsFinite(p) == p.k = "fin"

\* p > num/den, p < num/den, p <= num/den, p >= num/den for a double p and a
\* finite rational num/den with den > 0.  Every comparison with NaN is false.
FGt(p, num, den) == \/ p.k = "pinf"
                    \/ p.k = "fin" /\ p.v * den > num

FLt(p, num, den) == \/ p.k = "ninf"
                    \/ p.k = "fin" /\ p.v * den < num

FLe(p, num, den) == \/ p.k = "ninf"
                    \/ p.k = "fin" /\ p.v * den <= num

FGe(p, num, den) == \/ p.k = "pinf"
                    \/ p.k = "fin" /\ p.v * den >= num

\* f"{price:.2f}" for the doubles of the model
Format2f(p) == CASE p.k = "nan" -> "nan"
                 [] p.k = "pinf" -> "inf"
                 [] p.k = "ninf" -> "-inf"
                 [] p.v < 0 -> "-" \o ToString(0 - p.v) \o ".00"
                 [] OTHER -> ToString(p.v) \o ".00"

-----------------------------------------------------------------------------
(* ExampleGrid *)

\* Optional values: None is the empty sequence, a value d is <<d>>.
None == << >>

Some(d) == <<d>>

\* ExampleGrid.__init__: stores its arguments, validates nothing.
ExampleGrid(symbol, lower, upper, size) ==
    [symbol |-> symbol, lower |-> lower, upper |-> upper, size |-> size,
     last_action |-> ""]

\* a slip: the gate without its "symbol and": an empty symbol is a mismatch
SymbolMismatch_NoEmptyCheck(s, symbol) == symbol # s.symbol

\* a slip: == written for != in the symbol gate
SymbolMismatch_Inverted(s, symbol) == symbol # "" /\ symbol = s.symbol

\* symbol and symbol != self.symbol
SymbolMismatch(s, symbol) == symbol # "" /\ symbol # s.symbol

\* a slip: price < 0 written for price <= 0
NonPositive_Strict(price) == FLt(price, 0, 1)

\* price <= 0
NonPositive(price) == FLe(price, 0, 1)

\* price > self.lower * (1 + self.min_step_ratio)
AboveBuyReset(s, price) ==
    FGt(price, s.lower * (MinStepDen + MinStepNum), MinStepDen)

\* price < self.upper * (1 - self.min_step_ratio)
BelowSellReset(s, price) ==
    FLt(price, s.upper * (MinStepDen - MinStepNum), MinStepDen)

\* a slip: the BUY reset threshold taken inclusive
ResetBuyCond_Inclusive(la, s, price) ==
    la = "BUY" /\ FGe(price, s.lower * (MinStepDen + MinStepNum), MinStepDen)

\* a slip: the BUY reset compares with the band itself, not band * (1 + ratio)
ResetBuyCond_NoRatio(la, s, price) == la = "BUY" /\ FGt(price, s.lower, 1)

\* a slip: the BUY reset measures from the upper band
ResetBuyCond_WrongBand(la, s, price) ==
    la = "BUY" /\ FGt(price, s.upper * (MinStepDen + MinStepNum), MinStepDen)

\* line 22: self.last_action == "BUY" and price > self.lower * (1 + ...)
ResetBuyCond(la, s, price) == la = "BUY" /\ AboveBuyReset(s, price)

\* a slip: the SELL reset measures from the lower band
ResetSellCond_WrongBand(la, s, price) ==
    la = "SELL" /\ FLt(price, s.lower * (MinStepDen - MinStepNum), MinStepDen)

\* line 24: self.last_action == "SELL" and price < self.upper * (1 - ...)
ResetSellCond(la, s, price) == la = "SELL" /\ BelowSellReset(s, price)

\* a slip: the BUY trigger without its test of last_action
BuyCond_NoLatch(la, s, price) == FLe(price, s.lower, 1)

\* a slip: price < self.lower written for price <= self.lower
BuyCond_Strict(la, s, price) == FLt(price, s.lower, 1) /\ la # "BUY"

\* line 27: price <= self.lower and self.last_action != "BUY"
BuyCond(la, s, price) == FLe(price, s.lower, 1) /\ la # "BUY"

\* a slip: price > self.upper written for price >= self.upper
SellCond_Strict(la, s, price) == FGt(price, s.upper, 1) /\ la # "SELL"

\* line 31: price >= self.upper and self.last_action != "SELL"
SellCond(la, s, price) == FGe(price, s.upper, 1) /\ la # "SELL"

\* lines 29 and 33: the decision dict
Decision(s, action, price) ==
    [action |-> action, symbol |-> s.symbol, size |-> s.size,
     note |-> (IF action = "BUY" THEN "grid buy " ELSE "grid sell ")
              \o Format2f(price)]

\* last_action after lines 22-25
AfterResets(s, price) ==
    LET la1 == IF ResetBuyCond(s.last_action, s, price) THEN "" ELSE s.last_action
    IN  IF ResetSellCond(la1, s, price) THEN "" ELSE la1

\* a slip: the SELL trigger evaluated before the BUY trigger
on_tick_SellFirst(s, symbol, price) ==
    IF SymbolMismatch(s, symbol) THEN [ret |-> None, strategy |-> s]
    ELSE IF NonPositive(price) THEN [ret |-> None, strategy |-> s]
    ELSE LET la == AfterResets(s, price)
         IN  IF SellCond(la, s, price)
             THEN [ret |-> Some(Decision(s, "SELL", price)),
                   strategy |-> [s EXCEPT !.last_action = "SELL"]]
             ELSE IF BuyCond(la, s, price)
             THEN [ret |-> Some(Decision(s, "BUY", price)),
                   strategy |-> [s EXCEPT !.last_action = "BUY"]]
             ELSE [ret |-> None, strategy |-> [s EXCEPT !.last_action = la]]

\* a slip: line 32 copied from line 28 with "BUY" left in place
on_tick_CopiedLatch(s, symbol, price) ==
    IF SymbolMismatch(s, symbol) THEN [ret |-> None, strategy |-> s]
    ELSE IF NonPositive(price) THEN [ret |-> None, strategy |-> s]
    ELSE LET la == AfterResets(s, price)
         IN  IF BuyCond(la, s, price)
             THEN [ret |-> Some(Decision(s, "BUY", price)),
                   strategy |-> [s EXCEPT !.last_action = "BUY"]]
             ELSE IF SellCond(la, s, price)
             THEN [ret |-> Some(Decision(s, "SELL", price)),
                   strategy |-> [s EXCEPT !.last_action = "BUY"]]
             ELSE [ret |-> None, strategy |-> [s EXCEPT !.last_action = la]]

\* ExampleGrid.on_tick as one sequential call:
\* [ret |-> the returned value, strategy |-> the instance afterwards]
on_tick(s, symbol, price) ==
    IF SymbolMismatch(s, symbol) THEN [ret |-> None, strategy |-> s]
    ELSE IF NonPositive(price) THEN [ret |-> None, strategy |-> s]
    ELSE LET la == AfterResets(s, price)
         IN  IF BuyCond(la, s, price)
             THEN [ret |-> Some(Decision(s, "BUY", price)),
                   strategy |-> [s EXCEPT !.last_action = "BUY"]]
             ELSE IF SellCond(la, s, price)
             THEN [ret |-> Some(Decision(s, "SELL", price)),
                   strategy |-> [s EXCEPT !.last_action = "SELL"]]
             ELSE [ret |-> None, strategy |-> [s EXCEPT !.last_action = la]]

-----------------------------------------------------------------------------
(* StrategyService *)

\* a slip: a decision is answered with the request's symbol, not the decision's
SignalOf_RequestSymbol(ret, request) ==
    IF ret = None
    THEN [action |-> "HOLD", symbol |-> request.symbol, size |-> 0, note |-> "no-op"]
    ELSE [action |-> ret[1].action, symbol |-> request.symbol,
          size |-> ret[1].size, note |-> ret[1].note]

\* a slip: no HOLD is substituted, none is passed on as an empty Signal
SignalOf_NoSubstitute(ret, request) ==
    IF ret = None
    THEN [action |-> "", symbol |-> "", size |-> 0, note |-> ""]
    ELSE [action |-> ret[1].action, symbol |-> ret[1].symbol,
          size |-> ret[1].size, note |-> ret[1].note]

\* lines 75-82 of OnTick: the Signal built from the strategy's return value
SignalOf(ret, request) ==
    IF ret = None
    THEN [action |-> "HOLD", symbol |-> request.symbol, size |-> 0, note |-> "no-op"]
    ELSE [action |-> ret[1].action, symbol |-> ret[1].symbol,
          size |-> ret[1].size, note |-> ret[1].note]

\* StrategyService.__init__: the one instance the worker serves
ServiceArgs == [symbol |-> BoundSymbol, lower |-> ServiceLower,
                upper |-> ServiceUpper, size |-> ServiceSize]

-----------------------------------------------------------------------------
(* Inputs *)

\* Constructor arguments: the service's own, and others the constructor
\* accepts (narrow corridors, lower >= upper, size 0, bands at or below 0).
CtorArgs ==
    { ServiceArgs,
      [symbol |-> BoundSymbol, lower |-> 1000, upper |-> 1001, size |-> 1],
      [symbol |-> BoundSymbol, lower |-> 500000, upper |-> 501001, size |-> 1],
      [symbol |-> BoundSymbol, lower |-> 100, upper |-> 100, size |-> 1],
      [symbol |-> BoundSymbol, lower |-> 200, upper |-> 100, size |-> 1],
      [symbol |-> BoundSymbol, lower |-> 100, upper |-> 200, size |-> 0],
      [symbol |-> BoundSymbol, lower |-> 0 - 100, upper |-> 100, size |-> 1],
      [symbol |-> BoundSymbol, lower |-> 0 - 200, upper |-> 0 - 100, size |-> 1] }

Symbols == {BoundSymbol, "ETHUSDT", ""}

\* integer part of lower * (1 + min_step_ratio)
BuyResetFloor(s) == (s.lower * (MinStepDen + MinStepNum)) \div MinStepDen

\* integer part of upper * (1 - min_step_ratio)
SellResetFloor(s) == (s.upper * (MinStepDen - MinStepNum)) \div MinStepDen

Window(n) == (n - PriceSpread) .. (n + PriceSpread)

\* The finite prices tried on instance s: around 0, both bands, both thresholds.
FinitePrices(s) ==
    Window(0) \cup Window(s.lower) \cup Window(s.upper)
      \cup Window(BuyResetFloor(s)) \cup Window(SellResetFloor(s) + 1)

Prices(s) == {Fin(n) : n \in FinitePrices(s)} \cup {NaN, PosInf, NegInf}

Requests(s) == [symbol : Symbols, price : Prices(s)]

\* The prices tried on the pool: one at or below 0, the lower band, the first
\* integer above the BUY reset threshold, the upper band, NaN and +Infinity.
PoolPrices(s) ==
    {Fin(0), Fin(s.lower), Fin(BuyResetFloor(s) + 1), Fin(s.upper), NaN, PosInf}

PoolRequests(s) == [symbol : Symbols, price : PoolPrices(s)]

-----------------------------------------------------------------------------
(* Observations of the sequential runs *)

\* The observations below restate the tick's properties from the request and
\* the instance's parameters alone; they use none of the strategy's operators.

\* the tick is for the instance: its symbol is the bound one or empty
ForInstance(s, r) == r.symbol = s.symbol \/ r.symbol = ""

\* price > 0
Positive(p) == p.k = "pinf" \/ (p.k = "fin" /\ p.v > 0)

\* the accepted ticks: for the instance, with a positive price
Accepted(s, r) == ForInstance(s, r) /\ Positive(r.price)

\* the price is more than the minimum fraction above the lower band
MovedAboveLower(s, p) ==
    p.k = "pinf" \/ (p.k = "fin" /\ p.v * MinStepDen > s.lower * (MinStepDen + MinStepNum))

\* the price is more than the minimum fraction below the upper band
MovedBelowUpper(s, p) ==
    p.k = "ninf" \/ (p.k = "fin" /\ p.v * MinStepDen < s.upper * (MinStepDen - MinStepNum))

\* price <= lower, price >= upper
AtOrBelowLower(s, p) == p.k = "ninf" \/ (p.k = "fin" /\ p.v <= s.lower)

AtOrAboveUpper(s, p) == p.k = "pinf" \/ (p.k = "fin" /\ p.v >= s.upper)

Emits(ret, action) == ret # None /\ ret[1].action = action

\* "never": no such decision yet; "no": emitted, and no accepted tick beyond
\* the reset threshold since; "yes": emitted, and such a tick has happened.
NextSinceBuy(cur, s, r, ret) ==
    IF Emits(ret, "BUY") THEN "no"
    ELSE IF cur = "no" /\ Accepted(s, r) /\ MovedAboveLower(s, r.price) THEN "yes"
    ELSE cur

NextSinceSell(cur, s, r, ret) ==
    IF Emits(ret, "SELL") THEN "no"
    ELSE IF cur = "no" /\ Accepted(s, r) /\ MovedBelowUpper(s, r.price) THEN "yes"
    ELSE cur

\* the tick that last produced a decision, while every tick since repeats it
NextRun(cur, r, ret) ==
    IF ret # None THEN Some(r)
    ELSE IF cur = Some(r) THEN cur
    ELSE None

\* which re-arming tick the call was, if any
NextRearm(s, r) ==
    IF s.last_action = "BUY" /\ r.symbol = s.symbol /\ MovedAboveLower(s, r.price)
    THEN "BUY"
    ELSE IF s.last_action = "SELL" /\ r.symbol = s.symbol
            /\ Positive(r.price) /\ MovedBelowUpper(s, r.price)
    THEN "SELL"
    ELSE ""

\* the number of decisions emitted in the current run of ticks that all carry
\* the same price, counted up to MaxCounted
NextFlat(cur, last, r, ret) ==
    LET n == IF ret # None THEN 1 ELSE 0
    IN  IF last # None /\ last[1].price = r.price
        THEN IF cur + n > MaxCounted THEN MaxCounted ELSE cur + n
        ELSE n

\* the action of the most recent decision, "" before the first
NextLastEmit(cur, ret) == IF ret # None THEN ret[1].action ELSE cur

Snapshot == [strategy |-> strategy, sinceBuy |-> sinceBuy,
             sinceSell |-> sinceSell, run |-> run, rearm |-> rearm]

-----------------------------------------------------------------------------
(* Sequential specification: one OnTick call at a time *)

Threads == 1 .. MaxWorkers

\* the worker process has no notifier
NoAlert ==
    /\ notifier = None
    /\ outbox = << >>
    /\ sendState = "idle"

Init ==
    /\ NoAlert
    /\ \E a \in CtorArgs : strategy = ExampleGrid(a.symbol, a.lower, a.upper, a.size)
    /\ req = None
    /\ decision = None
    /\ signal = None
    /\ sinceBuy = "never"
    /\ sinceSell = "never"
    /\ run = None
    /\ rearm = ""
    /\ flat = 0
    /\ lastEmit = ""
    /\ pre = [strategy |-> strategy, sinceBuy |-> "never", sinceSell |-> "never",
              run |-> None, rearm |-> ""]
    /\ pc = [t \in Threads |-> "idle"]
    /\ treq = [t \in Threads |-> None]
    /\ tsig = [t \in Threads |-> None]
    /\ batch = None
    /\ calls = << >>

\* StrategyService.OnTick, the whole call
OnTick ==
    \E r \in Requests(strategy) :
        LET out == on_tick(strategy, r.symbol, r.price)
        IN  /\ pre' = Snapshot
            /\ req' = Some(r)
            /\ decision' = out.ret
            /\ strategy' = out.strategy
            /\ signal' = Some(SignalOf(out.ret, r))
            /\ sinceBuy' = NextSinceBuy(sinceBuy, strategy, r, out.ret)
            /\ sinceSell' = NextSinceSell(sinceSell, strategy, r, out.ret)
            /\ run' = NextRun(run, r, out.ret)
            /\ rearm' = NextRearm(strategy, r)
            /\ flat' = NextFlat(flat, req, r, out.ret)
            /\ lastEmit' = NextLastEmit(lastEmit, out.ret)
            /\ UNCHANGED <<concVars, alertVars>>

Next == OnTick

Spec == Init /\ [][Next]_vars

-----------------------------------------------------------------------------------------------------------------------------------------------------
(* Concurrent specification: the worker's thread pool runs OnTick calls on   *)
(* the one instance of the service with no lock.  A free worker takes the    *)
(* next call whatever the other worker is doing.  A call is split where it   *)
(* reads or writes self.last_action; what a thread does between two such     *)
(* accesses is local to it.                                                  *)

\* the request thread t is serving
Request(t) == treq[t][1]

\* thread t is inside a call
InFlight(t) == pc[t] \notin {"idle", "done"}

\* no call is in flight
Quiet == \A t \in Threads : ~InFlight(t)

\* the calls in flight
Flying == {t \in Threads : InFlight(t)}

SetLastAction(la) == strategy' = [strategy EXCEPT !.last_action = la]

\* the call of thread t returns: OnTick builds the Signal from ret
Return(t, ret) ==
    /\ tsig' = [tsig EXCEPT ![t] = Some(SignalOf(ret, Request(t)))]
    /\ pc' = [pc EXCEPT ![t] = "done"]
    /\ calls' = Append(calls, [req |-> Request(t),
                               sig |-> SignalOf(ret, Request(t))])

Goto(t, label) == pc' = [pc EXCEPT ![t] = label] /\ UNCHANGED <<tsig, calls>>

InitConc ==
    /\ Init
    /\ strategy = ExampleGrid(ServiceArgs.symbol, ServiceArgs.lower,
                              ServiceArgs.upper, ServiceArgs.size)

\* grpc hands a request to a free worker of the pool.  batch and calls keep
\* the instance as it was when the first of the overlapping calls arrived
\* and the calls that have returned since.
Dispatch(t) ==
    /\ pc[t] = "idle"
    /\ \E r \in PoolRequests(strategy) : treq' = [treq EXCEPT ![t] = Some(r)]
    /\ pc' = [pc EXCEPT ![t] = "l17"]
    /\ IF Quiet
       THEN batch' = Some(strategy) /\ calls' = << >>
       ELSE /\ Len(calls) + Cardinality(Flying) < MaxCalls
            /\ UNCHANGED <<batch, calls>>
    /\ UNCHANGED <<strategy, tsig, seqVars, alertVars>>

\* lines 17-20: the symbol and price gate
Gate(t) ==
    /\ pc[t] = "l17"
    /\ IF \/ SymbolMismatch(strategy, Request(t).symbol)
          \/ NonPositive(Request(t).price)
       THEN Return(t, None)
       ELSE Goto(t, "l22")
    /\ UNCHANGED <<strategy, treq, batch, seqVars, alertVars>>

\* line 22
CheckResetBuy(t) ==
    /\ pc[t] = "l22"
    /\ IF ResetBuyCond(strategy.last_action, strategy, Request(t).price)
       THEN Goto(t, "l23")
       ELSE Goto(t, "l24")
    /\ UNCHANGED <<strategy, treq, batch, seqVars, alertVars>>

\* line 23
ResetBuy(t) ==
    /\ pc[t] = "l23"
    /\ SetLastAction("")
    /\ Goto(t, "l24")
    /\ UNCHANGED <<treq, batch, seqVars, alertVars>>

\* line 24
CheckResetSell(t) ==
    /\ pc[t] = "l24"
    /\ IF ResetSellCond(strategy.last_action, strategy, Request(t).price)
       THEN Goto(t, "l25")
       ELSE Goto(t, "l27")
    /\ UNCHANGED <<strategy, treq, batch, seqVars, alertVars>>

\* line 25
ResetSell(t) ==
    /\ pc[t] = "l25"
    /\ SetLastAction("")
    /\ Goto(t, "l27")
    /\ UNCHANGED <<treq, batch, seqVars, alertVars>>

\* line 27
CheckBuy(t) ==
    /\ pc[t] = "l27"
    /\ IF BuyCond(strategy.last_action, strategy, Request(t).price)
       THEN Goto(t, "l28")
       ELSE Goto(t, "l31")
    /\ UNCHANGED <<strategy, treq, batch, seqVars, alertVars>>

\* lines 28-29
EmitBuy(t) ==
    /\ pc[t] = "l28"
    /\ SetLastAction("BUY")
    /\ Return(t, Some(Decision(strategy, "BUY", Request(t).price)))
    /\ UNCHANGED <<treq, batch, seqVars, alertVars>>

\* lines 31 and 35
CheckSell(t) ==
    /\ pc[t] = "l31"
    /\ IF SellCond(strategy.last_action, strategy, Request(t).price)
       THEN Goto(t, "l32")
       ELSE Return(t, None)
    /\ UNCHANGED <<strategy, treq, batch, seqVars, alertVars>>

\* lines 32-33
EmitSell(t) ==
    /\ pc[t] = "l32"
    /\ SetLastAction("SELL")
    /\ Return(t, Some(Decision(strategy, "SELL", Request(t).price)))
    /\ UNCHANGED <<treq, batch, seqVars, alertVars>>

\* the response of thread t is sent and the worker is free again; the record
\* of the overlapping calls ends when every worker is free
Collect(t) ==
    /\ pc[t] = "done"
    /\ pc' = [pc EXCEPT ![t] = "idle"]
    /\ treq' = [treq EXCEPT ![t] = None]
    /\ tsig' = [tsig EXCEPT ![t] = None]
    /\ IF \A u \in Threads \ {t} : pc[u] = "idle"
       THEN batch' = None /\ calls' = << >>
       ELSE UNCHANGED <<batch, calls>>
    /\ UNCHANGED <<strategy, seqVars, alertVars>>

NextConc ==
    \/ \E t \in Threads : Dispatch(t)
    \/ \E t \in Threads : Gate(t)
    \/ \E t \in Threads : CheckResetBuy(t)
    \/ \E t \in Threads : ResetBuy(t)
    \/ \E t \in Threads : CheckResetSell(t)
    \/ \E t \in Threads : ResetSell(t)
    \/ \E t \in Threads : CheckBuy(t)
    \/ \E t \in Threads : EmitBuy(t)
    \/ \E t \in Threads : CheckSell(t)
    \/ \E t \in Threads : EmitSell(t)
    \/ \E t \in Threads : Collect(t)

SpecConc == InitConc /\ [][NextConc]_vars

\* The worker as deployed, one call at a time: StrategyService.__init__ builds
\* the instance, and OnTick is only ever called on it.
SpecService == InitConc /\ [][Next]_vars

-----------------------------------------------------------------------------
(* Alert service: alert/telegram.py *)

\* a or b of Python for strings: a unless it is empty
OrElse(a, b) == IF a # "" THEN a ELSE b

\* TelegramNotifier.__init__: an argument that is None or "" falls back to the
\* environment variable, whose default is ""
TelegramNotifier(bot_token, chat_id, env_token, env_chat) ==
    [bot_token |-> OrElse(bot_token, env_token),
     chat_id |-> OrElse(chat_id, env_chat)]

\* line 13: not self.bot_token or not self.chat_id
Unconfigured(n) == n.bot_token = "" \/ n.chat_id = ""

\* lines 15-16: the request handed to requests.post
PostRequest(n, message) ==
    [url |-> "https://api.telegram.org/bot" \o n.bot_token \o "/sendMessage",
     chat_id |-> n.chat_id, text |-> message]

\* What requests.post(url, json=...) does with no timeout argument and no
\* surrounding try: it returns the response whatever its status code, raises
\* when the connection fails, and waits without limit for a silent server.
PostOutcomes == {"ok", "remote_error", "network_failure", "no_response"}

AfterPost(outcome) ==
    CASE outcome = "network_failure" -> "raised"
      [] outcome = "no_response" -> "blocked"
      [] OTHER -> "returned"

Messages == {"DES v2 alert service is running.", "grid buy 95.00"}

\* the state of the worker's own variables while the alert service runs
WorkerIdle ==
    /\ strategy = ExampleGrid(ServiceArgs.symbol, ServiceArgs.lower,
                              ServiceArgs.upper, ServiceArgs.size)
    /\ req = None /\ decision = None /\ signal = None
    /\ sinceBuy = "never" /\ sinceSell = "never" /\ run = None /\ rearm = ""
    /\ flat = 0 /\ lastEmit = ""
    /\ pre = [strategy |-> strategy, sinceBuy |-> "never", sinceSell |-> "never",
              run |-> None, rearm |-> ""]
    /\ pc = [t \in Threads |-> "idle"]
    /\ treq = [t \in Threads |-> None]
    /\ tsig = [t \in Threads |-> None]
    /\ batch = None
    /\ calls = << >>

InitAlert ==
    /\ WorkerIdle
    /\ \E bt \in {"", "argtoken"}, ci \in {"", "argchat"},
          et \in {"", "envtoken"}, ec \in {"", "envchat"} :
           notifier = Some(TelegramNotifier(bt, ci, et, ec))
    /\ outbox = << >>
    /\ sendState = "idle"

\* TelegramNotifier.send, called while the caller's previous call is not
\* still waiting
Send ==
    /\ sendState # "blocked"
    /\ \E message \in Messages :
           IF Unconfigured(notifier[1])
           THEN /\ sendState' = "returned"
                /\ UNCHANGED outbox
           ELSE /\ Len(outbox) < MaxSends
                /\ outbox' = Append(outbox, PostRequest(notifier[1], message))
                /\ \E outcome \in PostOutcomes : sendState' = AfterPost(outcome)
    /\ UNCHANGED <<strategy, seqVars, concVars, notifier>>

NextAlert == Send

SpecAlert == InitAlert /\ [][NextAlert]_vars

-----------------------------------------------------------------------------
(* Claims about the concurrent runs *)

\* the orders in which n calls can be applied one after another
Orders(n) == {o \in [1 .. n -> 1 .. n] :
                 \A i, j \in 1 .. n : o[i] = o[j] => i = j}

\* the responses and the instance after applying the returned calls in order
\* o, from position i on, to instance s
RECURSIVE Sequentially(_, _, _, _)
Sequentially(s, o, i, sigs) ==
    IF i > Len(calls) THEN [strategy |-> s, sigs |-> sigs]
    ELSE LET r == calls[o[i]].req
             out == on_tick(s, r.symbol, r.price)
         IN  Sequentially(out.strategy, o, i + 1,
                          [sigs EXCEPT ![o[i]] = Some(SignalOf(out.ret, r))])

\* every call that overlapped another has returned
Settled == Quiet /\ Len(calls) > 0

\* C8: when the calls that were in flight together have all returned, their
\* responses and the final last_action are those of applying the same ticks
\* one after another in some order.
C8_Serializable ==
    Settled =>
        \E o \in Orders(Len(calls)) :
            LET seq == Sequentially(batch[1], o, 1, [i \in 1 .. Len(calls) |-> None])
            IN  /\ \A i \in 1 .. Len(calls) : seq.sigs[i] = Some(calls[i].sig)
                /\ seq.strategy = strategy

-----------------------------------------------------------------------------
(* Claims about the sequential runs *)

Called == req # None

LastReq == req[1]

WellConfigured(s) == s.lower < s.upper

\* C1: a call that repeats the tick that last produced a decision (same
\* symbol, same price, nothing but such repetitions in between) returns none.
C1_RepeatReturnsNone ==
    (Called /\ pre.run = req) => decision = None

\* C2 as stated: with lower < upper, a BUY is emitted only if no BUY was
\* emitted before or an accepted tick with price > lower * (1 + min_step_ratio)
\* came since the previous BUY; a SELL only if no SELL was emitted before or an
\* accepted tick with price < upper * (1 - min_step_ratio) came since the
\* previous SELL.  Narrow corridors included.
C2_MovedBetweenSameTriggers ==
    (Called /\ WellConfigured(strategy)) =>
        /\ Emits(decision, "BUY") => pre.sinceBuy # "no"
        /\ Emits(decision, "SELL") => pre.sinceSell # "no"

\* the upper band lies beyond the BUY reset threshold
UpperBeyondBuyReset(s) ==
    s.upper * MinStepDen > s.lower * (MinStepDen + MinStepNum)

\* the lower band lies beyond the SELL reset threshold
LowerBeyondSellReset(s) ==
    s.lower * MinStepDen < s.upper * (MinStepDen - MinStepNum)

\* C2 amended: with lower < upper, between two BUY decisions there is an
\* accepted tick with price > lower * (1 + min_step_ratio) provided
\* upper > lower * (1 + min_step_ratio), and between two SELL decisions there
\* is an accepted tick with price < upper * (1 - min_step_ratio) provided
\* lower < upper * (1 - min_step_ratio).
C2_MovedBetweenSameTriggersWide ==
    (Called /\ WellConfigured(strategy)) =>
        /\ (UpperBeyondBuyReset(strategy) /\ Emits(decision, "BUY"))
               => pre.sinceBuy # "no"
        /\ (LowerBeyondSellReset(strategy) /\ Emits(decision, "SELL"))
               => pre.sinceSell # "no"

\* a second BUY in a wide corridor, after the price moved away
C2_Witness ==
    /\ Called /\ WellConfigured(strategy) /\ UpperBeyondBuyReset(strategy)
    /\ Emits(decision, "BUY") /\ pre.sinceBuy = "yes"

\* C3: with last_action BUY, a tick for the bound symbol with
\* price > lower * (1 + min_step_ratio) leaves last_action NONE, or SELL exactly
\* when that tick emits SELL; and the next tick for the instance with
\* 0 < price <= lower emits BUY.
C3_BuyRearm ==
    /\ (Called /\ pre.strategy.last_action = "BUY"
        /\ LastReq.symbol = pre.strategy.symbol
        /\ MovedAboveLower(pre.strategy, LastReq.price))
           => /\ strategy.last_action \in {"", "SELL"}
              /\ strategy.last_action = "SELL" <=> Emits(decision, "SELL")
    /\ (Called /\ pre.rearm = "BUY" /\ ForInstance(strategy, LastReq)
        /\ Positive(LastReq.price) /\ AtOrBelowLower(strategy, LastReq.price))
           => Emits(decision, "BUY")

\* BUY, a re-arming tick, and BUY again on the next tick
C3_Witness ==
    /\ Called /\ pre.rearm = "BUY" /\ pre.strategy.last_action = ""
    /\ Emits(decision, "BUY")

\* C4: with last_action SELL, a tick for the bound symbol with
\* 0 < price < upper * (1 - min_step_ratio) leaves last_action NONE, or BUY
\* exactly when that tick emits BUY; and the next tick for the instance with
\* price >= upper emits SELL.
C4_SellRearm ==
    /\ (Called /\ pre.strategy.last_action = "SELL"
        /\ LastReq.symbol = pre.strategy.symbol
        /\ Positive(LastReq.price)
        /\ MovedBelowUpper(pre.strategy, LastReq.price))
           => /\ strategy.last_action \in {"", "BUY"}
              /\ strategy.last_action = "BUY" <=> Emits(decision, "BUY")
    /\ (Called /\ pre.rearm = "SELL" /\ ForInstance(strategy, LastReq)
        /\ AtOrAboveUpper(strategy, LastReq.price))
           => Emits(decision, "SELL")

\* SELL, a re-arming tick, and SELL again on the next tick
C4_Witness ==
    /\ Called /\ pre.rearm = "SELL" /\ pre.strategy.last_action = ""
    /\ Emits(decision, "SELL")

HoldSignal(symbol) ==
    [action |-> "HOLD", symbol |-> symbol, size |-> 0, note |-> "no-op"]

\* C5: every call returns exactly one Signal, and when the strategy returned
\* none it is HOLD for the request's symbol with size 0 and note "no-op".
C5_Totality ==
    Called =>
        /\ Len(signal) = 1
        /\ signal[1].action \in {"BUY", "SELL", "HOLD"}
        /\ decision = None => signal[1] = HoldSignal(LastReq.symbol)

\* a NaN price for another symbol answered with HOLD for that symbol
C5_Witness ==
    /\ Called /\ decision = None /\ LastReq.price = NaN
    /\ LastReq.symbol = "ETHUSDT" /\ signal[1] = HoldSignal("ETHUSDT")

\* C6: a tick whose symbol is non-empty and not the bound symbol returns none
\* and leaves the whole instance as it was.
C6_SymbolMismatch ==
    (Called /\ LastReq.symbol # "" /\ LastReq.symbol # pre.strategy.symbol)
        => decision = None /\ strategy = pre.strategy

\* a mismatched tick at a price that would have fired SELL
C6_Witness ==
    /\ Called /\ LastReq.symbol = "ETHUSDT" /\ pre.strategy.last_action = "BUY"
    /\ AtOrAboveUpper(strategy, LastReq.price) /\ strategy.last_action = "BUY"

\* price <= 0
NotPositive(p) == p.k = "ninf" \/ (p.k = "fin" /\ p.v <= 0)

\* C7: a tick with price <= 0 returns none and leaves last_action (and the
\* rest of the instance) as it was.
C7_NonPositivePrice ==
    (Called /\ NotPositive(LastReq.price))
        => decision = None /\ strategy = pre.strategy

\* a tick for the instance with price <= 0 and price <= lower while SELL
C7_Witness ==
    /\ Called /\ ForInstance(strategy, LastReq) /\ NotPositive(LastReq.price)
    /\ AtOrBelowLower(strategy, LastReq.price)
    /\ pre.strategy.last_action = "SELL" /\ strategy.last_action = "SELL"

\* C9: every instance that has processed a tick has lower < upper, size > 0
\* and 0 <= min_step_ratio < 1 (a construction with other arguments fails).
C9_OnlyValidInstances ==
    Called => /\ strategy.lower < strategy.upper
              /\ strategy.size > 0
              /\ 0 <= MinStepNum /\ MinStepNum < MinStepDen

\* C10: a tick with a non-finite price or an unknown symbol makes the strategy
\* return none, the service answer HOLD, and leaves last_action unchanged.
C10_MalformedTickHeld ==
    (Called /\ (LastReq.price.k # "fin"
                \/ (LastReq.symbol # "" /\ LastReq.symbol # pre.strategy.symbol)))
        => /\ decision = None
           /\ signal[1].action = "HOLD"
           /\ strategy.last_action = pre.strategy.last_action

\* lower < price < upper
StrictlyBetween(s, p) == p.k = "fin" /\ s.lower < p.v /\ p.v < s.upper

\* C11: with lower < upper, BUY is emitted only by a tick with
\* 0 < price <= lower and SELL only by a tick with price >= upper; a tick with
\* lower < price < upper emits nothing; with last_action NONE an accepted tick
\* with price <= lower emits BUY and one with price >= upper emits SELL; every
\* decision carries the bound symbol and the configured size.
C11_TriggerSoundComplete ==
    (Called /\ WellConfigured(strategy)) =>
        /\ Emits(decision, "BUY")
              => Positive(LastReq.price) /\ AtOrBelowLower(strategy, LastReq.price)
        /\ Emits(decision, "SELL") => AtOrAboveUpper(strategy, LastReq.price)
        /\ StrictlyBetween(strategy, LastReq.price) => decision = None
        /\ (pre.strategy.last_action = "" /\ Accepted(strategy, LastReq))
              => /\ AtOrBelowLower(strategy, LastReq.price) => Emits(decision, "BUY")
                 /\ AtOrAboveUpper(strategy, LastReq.price) => Emits(decision, "SELL")
        /\ decision # None
              => /\ decision[1].action \in {"BUY", "SELL"}
                 /\ decision[1].symbol = strategy.symbol
                 /\ decision[1].size = strategy.size

\* a fresh instance of the service's configuration buys at exactly lower
C11_Witness ==
    /\ Called /\ WellConfigured(strategy) /\ pre.strategy.last_action = ""
    /\ pre.sinceBuy = "never" /\ LastReq.price = Fin(strategy.lower)
    /\ Emits(decision, "BUY") /\ decision[1].size = strategy.size

\* C12: in every response of the service's OnTick the action is BUY, SELL or
\* HOLD; size is 0 exactly when the action is HOLD; a decision of the strategy
\* is passed on with its own action, symbol and size, and is never HOLD.
C12_SignalMapping ==
    Called =>
        /\ signal[1].action \in {"BUY", "SELL", "HOLD"}
        /\ signal[1].size = 0 <=> signal[1].action = "HOLD"
        /\ decision # None
              => /\ decision[1].action # "HOLD"
                 /\ signal[1].action = decision[1].action
                 /\ signal[1].symbol = decision[1].symbol
                 /\ signal[1].size = decision[1].size
        /\ signal[1].action = "HOLD" => decision = None

\* a SELL for a request with an empty symbol, answered with the bound symbol
C12_Witness ==
    /\ Called /\ LastReq.symbol = "" /\ Emits(decision, "SELL")
    /\ signal[1].action = "SELL" /\ signal[1].symbol = BoundSymbol
    /\ signal[1].size = ServiceSize

\* C13: whatever the outcome of the delivery attempt, send returns normally to
\* its caller (it neither raises nor stays blocked), and an unconfigured
\* notifier makes no delivery attempt.
C13_SendBestEffort ==
    /\ sendState \in {"idle", "returned"}
    /\ (notifier # None /\ Unconfigured(notifier[1])) => outbox = << >>

\* C14: with lower < upper, one accepted tick switches sides: from BUY, a tick
\* with price >= upper and price > lower * (1 + min_step_ratio) emits SELL and
\* ends with last_action SELL; from SELL, a tick with 0 < price <= lower and
\* price < upper * (1 - min_step_ratio) emits BUY and ends with last_action BUY.
C14_SwitchSidesInOneTick ==
    (Called /\ WellConfigured(strategy) /\ ForInstance(strategy, LastReq)) =>
        /\ (pre.strategy.last_action = "BUY"
            /\ AtOrAboveUpper(strategy, LastReq.price)
            /\ MovedAboveLower(strategy, LastReq.price))
               => Emits(decision, "SELL") /\ strategy.last_action = "SELL"
        /\ (pre.strategy.last_action = "SELL"
            /\ Positive(LastReq.price)
            /\ AtOrBelowLower(strategy, LastReq.price)
            /\ MovedBelowUpper(strategy, LastReq.price))
               => Emits(decision, "BUY") /\ strategy.last_action = "BUY"

\* BUY, then SELL on the very next tick, at exactly upper
C14_Witness ==
    /\ Called /\ WellConfigured(strategy) /\ UpperBeyondBuyReset(strategy)
    /\ pre.strategy.last_action = "BUY" /\ pre.run # None
    /\ LastReq.price = Fin(strategy.upper)
    /\ Emits(decision, "SELL") /\ strategy.last_action = "SELL"

\* lower < price <= lower * (1 + min_step_ratio)
InBuyBand(s, p) ==
    /\ p.k = "fin" /\ p.v > s.lower
    /\ p.v * MinStepDen <= s.lower * (MinStepDen + MinStepNum)

\* upper * (1 - min_step_ratio) <= price < upper
InSellBand(s, p) ==
    /\ p.k = "fin" /\ p.v < s.upper
    /\ p.v * MinStepDen >= s.upper * (MinStepDen - MinStepNum)

\* C15 as stated, on instances with lower < upper: from BUY, a tick with
\* lower < price <= lower * (1 + min_step_ratio) returns none and leaves BUY;
\* from SELL, a tick with upper * (1 - min_step_ratio) <= price < upper returns
\* none and leaves SELL; a tick at exactly lower (upper) fires BUY (SELL) when
\* last_action is not BUY (SELL).
C15_BandsAsStated ==
    (Called /\ WellConfigured(strategy) /\ ForInstance(strategy, LastReq)) =>
        /\ (pre.strategy.last_action = "BUY" /\ InBuyBand(strategy, LastReq.price))
               => decision = None /\ strategy.last_action = "BUY"
        /\ (pre.strategy.last_action = "SELL" /\ Positive(LastReq.price)
            /\ InSellBand(strategy, LastReq.price))
               => decision = None /\ strategy.last_action = "SELL"
        /\ (pre.strategy.last_action # "BUY" /\ Positive(LastReq.price)
            /\ LastReq.price = Fin(strategy.lower))
               => Emits(decision, "BUY")
        /\ (pre.strategy.last_action # "SELL" /\ Positive(LastReq.price)
            /\ LastReq.price = Fin(strategy.upper))
               => Emits(decision, "SELL")

\* C15 amended, on every instance: from BUY, a tick with
\* lower < price <= lower * (1 + min_step_ratio) and price < upper returns none
\* and leaves BUY; from SELL, a tick with
\* upper * (1 - min_step_ratio) <= price < upper and price > lower returns none
\* and leaves SELL; a tick at exactly lower fires BUY when last_action is not
\* BUY; a tick at exactly upper fires SELL when last_action is not SELL,
\* unless that tick fires BUY.
C15_BandsOutsideOtherTrigger ==
    (Called /\ ForInstance(strategy, LastReq)) =>
        /\ (pre.strategy.last_action = "BUY" /\ InBuyBand(strategy, LastReq.price)
            /\ ~AtOrAboveUpper(strategy, LastReq.price))
               => decision = None /\ strategy.last_action = "BUY"
        /\ (pre.strategy.last_action = "SELL" /\ Positive(LastReq.price)
            /\ InSellBand(strategy, LastReq.price)
            /\ ~AtOrBelowLower(strategy, LastReq.price))
               => decision = None /\ strategy.last_action = "SELL"
        /\ (pre.strategy.last_action # "BUY" /\ Positive(LastReq.price)
            /\ LastReq.price = Fin(strategy.lower))
               => Emits(decision, "BUY")
        /\ (pre.strategy.last_action # "SELL" /\ Positive(LastReq.price)
            /\ LastReq.price = Fin(strategy.upper))
               => Emits(decision, "SELL") \/ Emits(decision, "BUY")

\* from BUY, a tick at exactly lower * (1 + min_step_ratio), below upper,
\* returns none and leaves BUY
C15_Witness ==
    /\ Called /\ ForInstance(strategy, LastReq)
    /\ pre.strategy.last_action = "BUY" /\ LastReq.price.k = "fin"
    /\ LastReq.price.v * MinStepDen = strategy.lower * (MinStepDen + MinStepNum)
    /\ LastReq.price.v < strategy.upper
    /\ decision = None /\ strategy.last_action = "BUY"

\* what the same tick does when it carries the bound symbol
WithBoundSymbol == on_tick(pre.strategy, pre.strategy.symbol, LastReq.price)

\* C16: a tick with an empty symbol returns what the same tick with the bound
\* symbol returns and changes the instance the same way; a BUY or SELL Signal
\* carries the bound symbol, a HOLD Signal the (empty) request symbol.
C16_EmptySymbolNotGated ==
    (Called /\ LastReq.symbol = "") =>
        /\ decision = WithBoundSymbol.ret
        /\ strategy = WithBoundSymbol.strategy
        /\ decision # None => signal[1].symbol = pre.strategy.symbol
        /\ decision = None => signal[1].action = "HOLD" /\ signal[1].symbol = ""

\* an empty-symbol tick fires BUY, answered with the bound symbol
C16_Witness ==
    /\ Called /\ LastReq.symbol = "" /\ Emits(decision, "BUY")
    /\ strategy.last_action = "BUY" /\ pre.strategy.last_action = "SELL"
    /\ signal[1].action = "BUY" /\ signal[1].symbol = BoundSymbol

\* C17: with lower < upper, a run of ticks that all carry the same price emits
\* at most one decision in total, from any reachable state.
C17_NoFlappingAtFixedPrice ==
    WellConfigured(strategy) => flat <= 1

\* after a decision, a tick at the same price (for the instance) returns none
C17_Witness ==
    /\ Called /\ WellConfigured(strategy) /\ flat = 1 /\ decision = None
    /\ Accepted(strategy, LastReq) /\ pre.run # None
    /\ pre.run[1].price = LastReq.price /\ lastEmit # ""

\* last_action once the resets of an accepted tick at price p are done
ResetsLeave(s, p) ==
    IF s.last_action = "BUY" /\ MovedAboveLower(s, p) THEN ""
    ELSE IF s.last_action = "SELL" /\ MovedBelowUpper(s, p) THEN ""
    ELSE s.last_action

\* C18: a call emits at most one decision; an accepted tick with both
\* price <= lower and price >= upper, with last_action not BUY after the
\* resets, emits BUY and ends with last_action BUY: SELL is not evaluated.
C18_BuyBeforeSell ==
    Called =>
        /\ Len(decision) <= 1
        /\ (Accepted(strategy, LastReq)
            /\ AtOrBelowLower(strategy, LastReq.price)
            /\ AtOrAboveUpper(strategy, LastReq.price)
            /\ ResetsLeave(pre.strategy, LastReq.price) # "BUY")
               => /\ Emits(decision, "BUY")
                  /\ strategy.last_action = "BUY"
                  /\ signal[1].action = "BUY"

\* lower > upper, a price between them, last_action SELL before: BUY wins
C18_Witness ==
    /\ Called /\ strategy.lower > strategy.upper
    /\ LastReq.price.k = "fin" /\ LastReq.price.v > strategy.upper
    /\ LastReq.price.v < strategy.lower /\ Accepted(strategy, LastReq)
    /\ pre.strategy.last_action = "SELL"
    /\ Emits(decision, "BUY") /\ strategy.last_action = "BUY"

\* C19: last_action is NONE, BUY or SELL; while it is BUY (SELL) the most
\* recent decision was a BUY (SELL); it becomes BUY or SELL only in a call that
\* emits that decision; a call that returns none leaves it or resets it to NONE.
C19_LastActionTracksDecisions ==
    /\ strategy.last_action \in {"", "BUY", "SELL"}
    /\ strategy.last_action # "" => lastEmit = strategy.last_action
    /\ (Called /\ strategy.last_action # pre.strategy.last_action
        /\ strategy.last_action # "")
           => Emits(decision, strategy.last_action)
    /\ (Called /\ decision = None)
           => strategy.last_action \in {pre.strategy.last_action, ""}

\* a call that returns none and resets SELL to NONE, a SELL being the most
\* recent decision
C19_Witness ==
    /\ Called /\ decision = None /\ pre.strategy.last_action = "SELL"
    /\ strategy.last_action = "" /\ lastEmit = "SELL"

====
